---- MODULE Spec2Model ----
(***************************************************************************)
(* Model of the El Wafaa shipping server (src/unnamed/part_000, the        *)
(* version of server.js that keeps the completedOrders ledger).            *)
(*                                                                         *)
(* Node runs every callback to completion, so one action is one callback: *)
(* the arrival of a request up to its first await, or the return of an     *)
(* outbound call up to the next await or the response.                     *)
(***************************************************************************)
EXTENDS Integers, Sequences, FiniteSets, TLC

\* ------------------------------------------------------------------ bounds
NumPurchaseReqs == 2
MaxPairs == 2
MaxPkgs == 2
MaxOffers == 2

PReqs == 1..NumPurchaseReqs

\* --------------------------------------------------------------- JS values
\* pkgId arrives through JSON.parse: absent, a string or a number.  A Map
\* compares keys by SameValueZero, so the string "7" and the number 7 differ.
Undefined == [t |-> "undefined", v |-> ""]
Str(s) == [t |-> "string", v |-> s]
Num(s) == [t |-> "number", v |-> s]

\* A variant that takes every string, the empty one too, for a key.
TruthyIfDefined(x) == x.t # "undefined"

Truthy(x) ==
    CASE x.t = "undefined" -> FALSE
      [] x.t = "string" -> x.v # ""
      [] x.t = "number" -> x.v # "0"

PkgIds == {Undefined, Str(""), Str("7"), Num("7")}

\* -------------------------------------------------------------- JS numbers
\* An amount text such as "12.50" is the sequence of its characters.
Digits == <<"0", "1", "2", "3", "4", "5", "6", "7", "8", "9">>

DigitValues ==
    [c \in {Digits[d] : d \in 1..10} |-> (CHOOSE d \in 1..10 : Digits[d] = c) - 1]

DigitOf(c) == DigitValues[c]

\* The position of the decimal point of a text, Len + 1 when it has none.
PointOf(text) ==
    IF \E i \in 1..Len(text) : text[i] = "."
    THEN CHOOSE i \in 1..Len(text) : text[i] = "."
    ELSE Len(text) + 1

RECURSIVE DigitsValue(_, _, _)
DigitsValue(text, from, to) ==
    IF to < from THEN 0
    ELSE 10 * DigitsValue(text, from, to - 1) + DigitOf(text[to])

\* The decimal value of a text with at most two fraction digits, in cents.
DecimalCents(text) ==
    LET pt == PointOf(text)
        frac == Len(text) - pt
    IN 100 * DigitsValue(text, 1, pt - 1)
       + (IF frac >= 1 THEN 10 * DigitOf(text[pt + 1]) ELSE 0)
       + (IF frac >= 2 THEN DigitOf(text[pt + 2]) ELSE 0)

RECURSIVE IntText(_)
IntText(n) ==
    IF n < 10 THEN <<Digits[n + 1]>>
    ELSE Append(IntText(n \div 10), Digits[(n % 10) + 1])

\* The text of n cents with two fraction digits.
CentsText(n) ==
    IntText(n \div 100) \o <<".", Digits[((n \div 10) % 10) + 1],
                              Digits[(n % 10) + 1]>>

\* A Number (IEEE 754 binary64) that arose from amounts: [k, s, r] is the
\* double of value k/100 + r/(100 * 2^s), a multiple of 2^-s.  The value is
\* held exactly; r is the distance to the decimal k/100 in units of
\* 1/(100 * 2^s).
Zero == [k |-> 0, s |-> 0, r |-> 0]

\* The binary exponent of k/100 for k > 0: 2^e <= k/100 < 2^(e+1).
AtLeastPow2(k, e) == IF e >= 0 THEN 100 * (2 ^ e) <= k ELSE 100 <= k * (2 ^ (0 - e))

ExponentOf(k) == CHOOSE e \in (0 - 7)..20 : AtLeastPow2(k, e) /\ ~AtLeastPow2(k, e + 1)

IsPow2(k) ==
    LET e == ExponentOf(k)
    IN IF e >= 0 THEN k = 100 * (2 ^ e) ELSE k * (2 ^ (0 - e)) = 100

\* (k * 2^s) mod m, by doubling.
RECURSIVE MulPow2Mod(_, _, _)
MulPow2Mod(k, s, m) ==
    IF s = 0 THEN k % m ELSE (2 * MulPow2Mod(k, s - 1, m)) % m

\* Round to nearest, ties to even: the double nearest to the real number
\* k/100 + err/(100 * 2^s), where that number is k/100 itself (err = 0) or
\* a multiple of 2^-s.  A double has 53 significant bits, so the result is a
\* multiple of 2^-s3 with s3 = 52 - (its binary exponent); a multiple of
\* 2^-s with s <= 32 below 2^21 has fewer bits and is a double already.
RoundToDouble(k, s, err) ==
    IF k = 0 THEN Zero
    ELSE IF s <= 32 THEN [k |-> k, s |-> s, r |-> err]
    ELSE LET e == IF err < 0 /\ IsPow2(k) THEN ExponentOf(k) - 1
                  ELSE ExponentOf(k)
             s3 == 52 - e
             d == s - s3
         IN IF d < 0 THEN [k |-> k, s |-> s, r |-> err]
            ELSE LET m == 100 * (2 ^ d)
                     n == (MulPow2Mod(k, s, 2 * m) + err + 2 * m) % (2 * m)
                     low == n % m
                     odd == n >= m
                     up == low > m \div 2 \/ (low = m \div 2 /\ odd)
                 IN [k |-> k, s |-> s3,
                     r |-> ((err - low) \div (2 ^ d))
                           + (IF up THEN 100 ELSE 0)]

\* parseFloat of an amount text: the double nearest to its decimal value.
\* A whole number of quarters is a multiple of 2^-2.
ParseFloat(text) ==
    LET k == DecimalCents(text)
    IN IF k % 25 = 0 THEN RoundToDouble(k, 2, 0)
       ELSE RoundToDouble(k, 52 - ExponentOf(k), 0)

\* a + b of two Numbers: the exact sum, rounded.
Max(a, b) == IF a >= b THEN a ELSE b

\* r * 2^j.
Scaled(r, j) == IF r = 0 THEN 0 ELSE r * (2 ^ j)

FAdd(a, b) ==
    IF a.k = 0 THEN b
    ELSE IF b.k = 0 THEN a
    ELSE LET s == Max(a.s, b.s)
         IN RoundToDouble(a.k + b.k, s,
                          Scaled(a.r, s - a.s) + Scaled(b.r, s - b.s))

\* A variant that cuts the digits after the second instead of rounding.
ToFixed2Truncating(x) == CentsText(IF x.r < 0 THEN x.k - 1 ELSE x.k)

\* x.toFixed(2): the n for which n/100 - x is closest to zero, the larger n
\* of two, written with two fraction digits.  100 * x is k + r/2^s, and r
\* stays far below 2^28.
ToFixed2(x) ==
    CentsText(IF x.s > 28 THEN x.k
              ELSE x.k + ((2 * x.r + 2 ^ x.s) \div (2 ^ (x.s + 1))))

VARIABLES
    completedOrders,  \* the ledger: a Map from pkgId to order record
    ppc,              \* per purchase request: "idle", "purchasing", "responded"
    pbody,            \* per purchase request: the parsed JSON body
    results,          \* per purchase request: purchaseAllLabels' local results
    tx,               \* per purchase request: the /transactions calls it issued
    presp,            \* per purchase request: the HTTP response written
    printJobs,        \* per purchase request: the /printjobs it dispatched
    steps,            \* per purchase request: the handler's steps after the
                      \* purchase, in the order they ran
    printerConfigured, \* PRINTNODE_API_KEY and PRINTNODE_PRINTER_ID are set
    messages          \* per purchase request: the message list of the answer
                      \* that reported a failed purchase, if one did

VARIABLES
    qpc,    \* the quote request: "idle", "awaiting", "aggregated", "failed"
    qn,     \* the quote request: packages.length
    ship,   \* per package: its /shipments call (how often it was issued)
            \* and what it returned
    qresp,  \* the quote request: the HTTP response written
    lastReturned  \* the package whose /shipments call completed last so far

pvars == <<completedOrders, ppc, pbody, results, tx, presp, printJobs, steps,
           printerConfigured, messages>>

qvars == <<qpc, qn, ship, qresp, lastReturned>>

VARIABLES
    lresp   \* the response of the latest GET /api/order/ request

lvars == <<lresp>>

vars == <<pvars, qvars, lvars>>

\* ----------------------------------------------------------- request data
\* package_rates of a request with n pairs: pair i is package i-1 with the
\* rate id the quote gave for it.
PackageRates(n) == [i \in 1..n |-> [packageIndex |-> i - 1, rate_id |-> i]]

NoBody == [pkgId |-> Undefined, package_rates |-> <<>>]

\* The numbers of pairs a request may carry.
PairCounts == {0, MaxPairs}

\* The rest of the body is first read after purchaseAllLabels returned, and
\* is drawn there: destination and packages are objects of the body or
\* missing; selectedRate is missing, a complete quote, or a quote object
\* without servicelevel.
BodyRests ==
    [destination : {"object", "undefined"},
     packages : {"array", "undefined"},
     selectedRate : {"undefined", "complete", "noServicelevel"}]

NoResponse == [status |-> 0, error |-> "", labels |-> <<>>]

MapSet(m, k, v) == [x \in DOMAIN m \cup {k} |-> IF x = k THEN v ELSE m[x]]

\* The data the carrier returns for the /transactions call of request r's
\* i-th pair when it sells the label: each value is named by the call.
TransactionData(r, i) ==
    [tracking_number |-> <<r, i>>,
     label_url |-> <<"label_url", r, i>>,
     tracking_url_provider |-> <<"tracking_url_provider", r, i>>,
     object_id |-> <<"object_id", r, i>>]

\* A variant that reads the tracking URL from a field the carrier calls
\* otherwise.
PurchaseLabelOtherField(data) ==
    [tracking_number |-> data.tracking_number,
     label_url |-> data.label_url,
     tracking_url |-> data.label_url,
     transaction_id |-> data.object_id]

\* What purchaseLabel returns for the data of a sold label.
PurchaseLabel(data) ==
    [tracking_number |-> data.tracking_number,
     label_url |-> data.label_url,
     tracking_url |-> data.tracking_url_provider,
     transaction_id |-> data.object_id]

\* The LabelResult of request r's i-th pair, as purchaseAllLabels pushes it.
LabelResult(r, i) ==
    LET rate == pbody[r].package_rates[i]
        labelInfo == PurchaseLabel(TransactionData(r, i))
    IN [packageIndex |-> rate.packageIndex,
        tracking_number |-> labelInfo.tracking_number,
        label_url |-> labelInfo.label_url,
        tracking_url |-> labelInfo.tracking_url]

\* -------------------------------------------------------------- rate data
\* The (provider, servicelevel.token) pairs the carrier service may offer.
OfferKinds ==
    {[provider |-> "USPS", token |-> "ground"],
     [provider |-> "UPS-X", token |-> "g"],
     [provider |-> "UPS", token |-> "X-g"]}

\* The amount text the carrier quotes for package p: "5.00", "7.50", ...
AmountOf(p) == CentsText(250 * (p + 1))

\* A rate object of the shipment of package p (1-based), its j-th.
PricedRate(p, j, kind, amount) ==
    [provider |-> kind.provider, token |-> kind.token,
     amount |-> amount, object_id |-> <<p, j>>]

\* The j-th rate of the shipment of package p, of the given kind.
Rate(p, j, kind) == PricedRate(p, j, kind, AmountOf(p))

\* The rate lists a successful /shipments call of package p may return.
RateLists(p) ==
    UNION {{[j \in 1..len |-> Rate(p, j, ks[j])] : ks \in [1..len -> OfferKinds]}
           : len \in 0..MaxOffers}

NoQuoteResponse == [status |-> 0, error |-> "", rates |-> <<>>]

\* The texts after /api/order/ in the URL of a lookup, decoded.
LookupTexts == {"7", "8"}

NoLookup == [url |-> "", exists |-> FALSE, order |-> <<>>]

Init ==
    /\ completedOrders = << >>
    /\ ppc = [r \in PReqs |-> "idle"]
    /\ pbody = [r \in PReqs |-> NoBody]
    /\ results = [r \in PReqs |-> <<>>]
    /\ tx = [r \in PReqs |-> <<>>]
    /\ presp = [r \in PReqs |-> NoResponse]
    /\ printJobs = [r \in PReqs |-> <<>>]
    /\ steps = [r \in PReqs |-> <<>>]
    /\ printerConfigured \in BOOLEAN
    /\ messages = [r \in PReqs |-> <<>>]
    /\ qpc = "idle"
    /\ qn = 0
    /\ ship = <<>>
    /\ qresp = NoQuoteResponse
    /\ lastReturned = 0
    /\ lresp = NoLookup

\* ------------------------------------------------------ POST /api/purchase
\* The duplicate check of the handler.
IsDuplicateNever(pkgId) == FALSE

IsDuplicateInFlight(pkgId) ==
    /\ Truthy(pkgId)
    /\ \/ pkgId \in DOMAIN completedOrders
       \/ \E q \in PReqs : ppc[q] = "purchasing" /\ pbody[q].pkgId = pkgId

IsDuplicate(pkgId) == Truthy(pkgId) /\ pkgId \in DOMAIN completedOrders

\* One /transactions call: the pair it is for, the rate it buys, and whether
\* it is outstanding ("out"), returned a label ("ok") or failed.
Call(body, i, st) ==
    [idx |-> i, rate_id |-> body.package_rates[i].rate_id, st |-> st]

\* The calls purchaseAllLabels issues before its first await.
FirstCallsAll(body) ==
    [i \in 1..Len(body.package_rates) |-> Call(body, i, "out")]

FirstCalls(body) ==
    IF Len(body.package_rates) = 0 THEN <<>> ELSE <<Call(body, 1, "out")>>

\* What a failed /transactions call makes purchaseLabel throw: "http" is an
\* answer with another status than 200 or 201 that carries a detail, "error"
\* an answer of status ERROR whose one message reads "Invalid rate", and
\* "transport" a request that failed without an answer.
FailureKinds == {"http", "error", "transport"}

ErrorMessage(kind) ==
    CASE kind = "http" -> "detail"
      [] kind = "error" -> "Invalid rate"
      [] kind = "transport" -> "socket hang up"

\* The texts a message of the carrier may carry, as character sequences; a
\* message may also come without a text.
InvalidRate == <<"I", "n", "v", "a", "l", "i", "d", " ", "r", "a", "t", "e">>

NoText == [t |-> "undefined", v |-> <<>>]

Text(chars) == [t |-> "string", v |-> chars]

MessageTexts == {NoText, Text(<<>>), Text(InvalidRate), Text(<<"n", "o">>)}

MaxMessages == 2

\* The message lists an answer with status ERROR may carry.
MessageLists ==
    UNION {[1..len -> {[text |-> t] : t \in MessageTexts}] : len \in 0..MaxMessages}

\* Array.prototype.join(', ') of the texts from position i on: an undefined
\* element is written as the empty string.
RECURSIVE JoinTexts(_, _)
JoinTexts(msgs, i) ==
    IF i > Len(msgs) THEN <<>>
    ELSE (IF msgs[i].text.t = "undefined" THEN <<>> ELSE msgs[i].text.v)
         \o (IF i < Len(msgs) THEN <<",", " ">> ELSE <<>>)
         \o JoinTexts(msgs, i + 1)

LabelPurchaseFailed ==
    <<"L", "a", "b", "e", "l", " ", "p", "u", "r", "c", "h", "a", "s", "e", " ",
      "f", "a", "i", "l", "e", "d">>

\* A variant that reports the text of the first message only.
ErrorMsgFirstOnly(msgs) ==
    IF msgs = <<>> \/ JoinTexts(<<msgs[1]>>, 1) = <<>> THEN LabelPurchaseFailed
    ELSE JoinTexts(<<msgs[1]>>, 1)

\* The message of the error purchaseLabel throws for status ERROR.
ErrorMsg(msgs) ==
    IF JoinTexts(msgs, 1) = <<>> THEN LabelPurchaseFailed
    ELSE JoinTexts(msgs, 1)

\* The catch of the handler: the response is the error's message.
ErrorResponse(msg) == [status |-> 400, error |-> msg, labels |-> <<>>]

DuplicateResponse ==
    [status |-> 400, error |-> "This order has already been completed",
     labels |-> <<>>]

SuccessResponse(labels) == [status |-> 200, error |-> "", labels |-> labels]

\* The steps of the handler between purchaseAllLabels and the response.
DestinationThrows(rest) == rest.destination = "undefined"

LabelJobs(labels) ==
    IF printerConfigured /\ Len(labels) > 0 THEN <<"label">> ELSE <<>>

SlipJobs(rest) ==
    IF printerConfigured /\ rest.packages = "array" THEN <<"slip">> ELSE <<>>

LogThrows(rest) == rest.packages = "undefined"

RecordThrows(pkgId, rest) ==
    Truthy(pkgId) /\ rest.selectedRate = "noServicelevel"

OrderData(rest, labels) ==
    [method |-> IF rest.selectedRate = "undefined" THEN "N/A"
                ELSE "provider - name",
     labels |-> labels]

\* The statements of the handler that run after purchaseAllLabels returned,
\* in their order; an exception ends the sequence.
HandlerSteps(pkgId, rest) ==
    IF DestinationThrows(rest) THEN <<>>
    ELSE <<"printLabels", "printPackingSlip", "logOrderDetails">>
         \o (IF LogThrows(rest) \/ RecordThrows(pkgId, rest) THEN <<>>
             ELSE (IF Truthy(pkgId) THEN <<"set">> ELSE <<>>) \o <<"end">>)

\* The handler after purchaseAllLabels returned labels: print, log, store,
\* respond.  An exception of any step ends in the handler's catch.
AfterPurchase(r, pkgId, rest, labels) ==
    /\ steps' = [steps EXCEPT ![r] = HandlerSteps(pkgId, rest)]
    /\ IF DestinationThrows(rest)
       THEN /\ presp' = [presp EXCEPT ![r] = ErrorResponse("reading 'name'")]
            /\ UNCHANGED <<completedOrders, printJobs>>
       ELSE /\ printJobs' =
                 [printJobs EXCEPT ![r] = LabelJobs(labels) \o SlipJobs(rest)]
            /\ IF LogThrows(rest)
               THEN /\ presp' =
                         [presp EXCEPT ![r] = ErrorResponse("reading 'length'")]
                    /\ UNCHANGED completedOrders
               ELSE IF RecordThrows(pkgId, rest)
               THEN /\ presp' =
                         [presp EXCEPT ![r] = ErrorResponse("reading 'name'")]
                    /\ UNCHANGED completedOrders
               ELSE /\ completedOrders' =
                         IF Truthy(pkgId)
                         THEN MapSet(completedOrders, pkgId,
                                     OrderData(rest, labels))
                         ELSE completedOrders
                    /\ presp' = [presp EXCEPT ![r] = SuccessResponse(labels)]

\* A purchase request arrives: parse, duplicate check, first purchase call.
PurchaseRequest(r, pkgId, n) ==
    /\ ppc[r] = "idle"
    /\ r > 1 => ppc[r - 1] # "idle"
    /\ LET body == [pkgId |-> pkgId, package_rates |-> PackageRates(n)]
       IN /\ pbody' = [pbody EXCEPT ![r] = body]
          /\ IF IsDuplicate(pkgId)
             THEN /\ presp' = [presp EXCEPT ![r] = DuplicateResponse]
                  /\ ppc' = [ppc EXCEPT ![r] = "responded"]
                  /\ UNCHANGED <<completedOrders, tx, printJobs, steps>>
             ELSE /\ tx' = [tx EXCEPT ![r] = FirstCalls(body)]
                  /\ IF n = 0
                     THEN /\ \E rest \in BodyRests :
                                AfterPurchase(r, pkgId, rest, <<>>)
                          /\ ppc' = [ppc EXCEPT ![r] = "responded"]
                     ELSE /\ ppc' = [ppc EXCEPT ![r] = "purchasing"]
                          /\ UNCHANGED <<completedOrders, presp, printJobs, steps>>
    /\ UNCHANGED <<results, printerConfigured, messages, qvars, lvars>>

\* The outstanding /transactions call of r returns a label: push the
\* LabelResult, then the next pair's call or the rest of the handler.
TransactionSucceeds(r) ==
    /\ ppc[r] = "purchasing"
    /\ LET i == Len(tx[r])
           body == pbody[r]
           labels == Append(results[r], LabelResult(r, i))
       IN /\ tx[r][i].st = "out"
          /\ results' = [results EXCEPT ![r] = labels]
          /\ IF i < Len(body.package_rates)
             THEN /\ tx' = [tx EXCEPT ![r] =
                        Append([@ EXCEPT ![i].st = "ok"], Call(body, i + 1, "out"))]
                  /\ UNCHANGED <<completedOrders, ppc, presp, printJobs, steps>>
             ELSE /\ tx' = [tx EXCEPT ![r][i].st = "ok"]
                  /\ \E rest \in BodyRests :
                        AfterPurchase(r, body.pkgId, rest, labels)
                  /\ ppc' = [ppc EXCEPT ![r] = "responded"]
    /\ UNCHANGED <<pbody, printerConfigured, messages, qvars, lvars>>

\* A variant that goes on with the next pair after a failed one.
TransactionFailsContinue(r, kind) ==
    /\ ppc[r] = "purchasing"
    /\ LET i == Len(tx[r])
           body == pbody[r]
       IN /\ tx[r][i].st = "out"
          /\ IF i < Len(body.package_rates)
             THEN /\ tx' = [tx EXCEPT ![r] =
                        Append([@ EXCEPT ![i].st = kind], Call(body, i + 1, "out"))]
                  /\ UNCHANGED <<ppc, presp>>
             ELSE /\ tx' = [tx EXCEPT ![r][i].st = kind]
                  /\ presp' = [presp EXCEPT ![r] = ErrorResponse(ErrorMessage(kind))]
                  /\ ppc' = [ppc EXCEPT ![r] = "responded"]
    /\ UNCHANGED <<completedOrders, pbody, results, printJobs, steps,
                   printerConfigured, messages, qvars, lvars>>

\* A variant whose catch stores what was purchased so far.
TransactionFailsStores(r, kind) ==
    /\ ppc[r] = "purchasing"
    /\ LET i == Len(tx[r])
       IN /\ tx[r][i].st = "out"
          /\ tx' = [tx EXCEPT ![r][i].st = kind]
    /\ completedOrders' =
          IF Truthy(pbody[r].pkgId)
          THEN MapSet(completedOrders, pbody[r].pkgId,
                      [method |-> "N/A", labels |-> results[r]])
          ELSE completedOrders
    /\ results' = [results EXCEPT ![r] = <<>>]
    /\ presp' = [presp EXCEPT ![r] = ErrorResponse(ErrorMessage(kind))]
    /\ ppc' = [ppc EXCEPT ![r] = "responded"]
    /\ UNCHANGED <<pbody, printJobs, steps, printerConfigured, messages,
                   qvars, lvars>>

\* A variant whose catch sends the labels purchased so far to the printer.
TransactionFailsPrints(r, kind) ==
    /\ ppc[r] = "purchasing"
    /\ LET i == Len(tx[r])
       IN /\ tx[r][i].st = "out"
          /\ tx' = [tx EXCEPT ![r][i].st = kind]
    /\ printJobs' = [printJobs EXCEPT ![r] = LabelJobs(results[r])]
    /\ results' = [results EXCEPT ![r] = <<>>]
    /\ presp' = [presp EXCEPT ![r] = ErrorResponse(ErrorMessage(kind))]
    /\ ppc' = [ppc EXCEPT ![r] = "responded"]
    /\ UNCHANGED <<completedOrders, pbody, steps, printerConfigured, messages,
                   qvars, lvars>>

\* The outstanding /transactions call of r fails: purchaseLabel throws, the
\* loop and its local results are left, the handler's catch responds.
TransactionFails(r, kind) ==
    /\ ppc[r] = "purchasing"
    /\ LET i == Len(tx[r])
       IN /\ tx[r][i].st = "out"
          /\ tx' = [tx EXCEPT ![r][i].st = kind]
    /\ results' = [results EXCEPT ![r] = <<>>]
    /\ presp' = [presp EXCEPT ![r] = ErrorResponse(ErrorMessage(kind))]
    /\ ppc' = [ppc EXCEPT ![r] = "responded"]
    /\ UNCHANGED <<completedOrders, pbody, printJobs, steps, printerConfigured,
                   messages, qvars, lvars>>

\* The outstanding /transactions call of r is answered with status ERROR and
\* a message list: purchaseLabel throws the joined texts.
TransactionErrors(r, msgs) ==
    /\ ppc[r] = "purchasing"
    /\ LET i == Len(tx[r])
       IN /\ tx[r][i].st = "out"
          /\ tx' = [tx EXCEPT ![r][i].st = "error"]
    /\ messages' = [messages EXCEPT ![r] = msgs]
    /\ results' = [results EXCEPT ![r] = <<>>]
    /\ presp' = [presp EXCEPT ![r] = ErrorResponse(ErrorMsg(msgs))]
    /\ ppc' = [ppc EXCEPT ![r] = "responded"]
    /\ UNCHANGED <<completedOrders, pbody, printJobs, steps, printerConfigured,
                   qvars, lvars>>

PurchaseNext ==
    \/ \E r \in PReqs, pkgId \in PkgIds, n \in PairCounts :
          PurchaseRequest(r, pkgId, n)
    \/ \E r \in PReqs : TransactionSucceeds(r)
    \/ \E r \in PReqs, kind \in FailureKinds : TransactionFails(r, kind)

PurchaseSpec == Init /\ [][PurchaseNext]_vars

\* ------------------------------------------- purchases and their messages
\* One purchase request whose failed status comes with a message list.
MessagesNext ==
    \/ \E pkgId \in PkgIds, n \in PairCounts : PurchaseRequest(1, pkgId, n)
    \/ TransactionSucceeds(1)
    \/ \E msgs \in MessageLists : TransactionErrors(1, msgs)
    \/ \E kind \in FailureKinds \ {"error"} : TransactionFails(1, kind)

MessagesSpec == Init /\ [][MessagesNext]_vars

\* ------------------------------------------------------ GET /api/order/
\* decodeURIComponent of the URL's rest: always a string.
LookupKey(text) == Str(text)

\* The lookup handler: one synchronous step.
OrderLookup(text) ==
    /\ LET pkgId == LookupKey(text)
       IN lresp' = IF pkgId \in DOMAIN completedOrders
                   THEN [url |-> text, exists |-> TRUE,
                         order |-> completedOrders[pkgId]]
                   ELSE [url |-> text, exists |-> FALSE, order |-> <<>>]
    /\ UNCHANGED <<pvars, qvars>>

LookupNext ==
    \/ \E r \in PReqs, pkgId \in PkgIds, n \in PairCounts :
          PurchaseRequest(r, pkgId, n)
    \/ \E r \in PReqs : TransactionSucceeds(r)
    \/ \E r \in PReqs, kind \in FailureKinds : TransactionFails(r, kind)
    \/ \E text \in LookupTexts : OrderLookup(text)

LookupSpec == Init /\ [][LookupNext]_vars

\* --------------------------------------------------------- POST /api/rates
\* The key of the rate map.
RateKey(rate) == rate.provider \o "-" \o rate.token

\* shipments.forEach(shipment => shipment.rates.forEach(...)) visits the
\* rates in this order.
RECURSIVE FlatRates(_, _)
FlatRates(shipments, p) ==
    IF p > Len(shipments) THEN <<>>
    ELSE [j \in 1..Len(shipments[p].rates) |->
             [packageIndex |-> shipments[p].packageIndex,
              rate |-> shipments[p].rates[j]]]
         \o FlatRates(shipments, p + 1)

\* The position of key in the (insertion-ordered) rate map, 0 when absent.
KeyIndex(map, key) ==
    IF \E k \in 1..Len(map) : map[k].key = key
    THEN CHOOSE k \in 1..Len(map) : map[k].key = key
    ELSE 0

\* The body of the inner forEach, for the rates from position i on.
RECURSIVE GroupRates(_, _, _)
GroupRates(flat, i, map) ==
    IF i > Len(flat) THEN map
    ELSE LET e == flat[i]
             key == RateKey(e.rate)
             map1 == IF KeyIndex(map, key) = 0
                     THEN Append(map, [key |-> key,
                                       provider |-> e.rate.provider,
                                       token |-> e.rate.token,
                                       total_amount |-> Zero,
                                       package_rates |-> <<>>])
                     ELSE map
             k == KeyIndex(map1, key)
             map2 == [map1 EXCEPT
                        ![k].total_amount = FAdd(@, ParseFloat(e.rate.amount)),
                        ![k].package_rates =
                            Append(@, [packageIndex |-> e.packageIndex,
                                       rate_id |-> e.rate.object_id,
                                       amount |-> e.rate.amount])]
         IN GroupRates(flat, i + 1, map2)

\* Only the entries with packages.length package rates are returned.
CompleteRates(map, n) ==
    LET IsComplete(v) == Len(v.package_rates) = n
        kept == SelectSeq(map, IsComplete)
    IN [k \in 1..Len(kept) |->
           [key |-> kept[k].key, provider |-> kept[k].provider,
            token |-> kept[k].token,
            amount |-> ToFixed2(kept[k].total_amount),
            package_rates |-> kept[k].package_rates]]

\* What getRatesForPackages returns once Promise.all resolved.
Aggregate(shipments, n) ==
    CompleteRates(GroupRates(FlatRates(shipments, 1), 1, <<>>), n)

\* A variant in which the shipments stand in the order their calls returned:
\* the one that returned last is the last.
ShipmentsByArrival(n, sh) ==
    LET order == [i \in 1..n |-> IF i = n THEN lastReturned'
                                 ELSE IF i < lastReturned' THEN i ELSE i + 1]
    IN [i \in 1..n |-> [packageIndex |-> order[i] - 1,
                        rates |-> sh[order[i]].rates]]

\* The array Promise.all resolves to: one shipment per package, by index.
ShipmentsOf(n, sh) ==
    [p \in 1..n |-> [packageIndex |-> p - 1, rates |-> sh[p].rates]]

ShipFailureKinds == {"detail", "nodetail", "transport"}

\* The message of the error a failed /shipments call of package p throws.
ShipErrorMessage(p, kind) ==
    CASE kind = "detail" -> "detail"
      [] kind = "nodetail" ->
            "Failed to create shipment for package " \o ToString(p)
      [] kind = "transport" -> "socket hang up"

\* A quote request with n packages arrives: one /shipments call per package,
\* all issued before the first of them returns.
QuoteRequest(n) ==
    /\ qpc = "idle"
    /\ qn' = n
    /\ ship' = [p \in 1..n |-> [st |-> "out", rates |-> <<>>, issued |-> 1]]
    /\ qpc' = "awaiting"
    /\ lastReturned' = 0
    /\ UNCHANGED <<qresp, pvars, lvars>>

\* A variant that aggregates what has returned as soon as one call returns.
ShipmentReturnsEager(p, rates) ==
    /\ qpc \in {"awaiting", "failed", "aggregated"}
    /\ p \in 1..qn
    /\ ship[p].st = "out"
    /\ ship' = [ship EXCEPT ![p].st = "ok", ![p].rates = rates]
    /\ IF qpc = "awaiting"
       THEN /\ qpc' = "aggregated"
            /\ qresp' = [status |-> 200, error |-> "",
                         rates |-> Aggregate(ShipmentsOf(qn, ship'), qn)]
       ELSE UNCHANGED <<qpc, qresp>>
    /\ lastReturned' = p
    /\ UNCHANGED <<qn, pvars, lvars>>

\* The /shipments call of package p returns rates; when it was the last one
\* outstanding and none failed, Promise.all resolves and the rates are
\* aggregated and sent.
ShipmentReturns(p, rates) ==
    /\ qpc \in {"awaiting", "failed"}
    /\ p \in 1..qn
    /\ ship[p].st = "out"
    /\ ship' = [ship EXCEPT ![p].st = "ok", ![p].rates = rates]
    /\ lastReturned' = p
    /\ IF qpc = "awaiting" /\ \A o \in 1..qn : ship'[o].st = "ok"
       THEN /\ qpc' = "aggregated"
            /\ qresp' = [status |-> 200, error |-> "",
                         rates |-> Aggregate(ShipmentsOf(qn, ship'), qn)]
       ELSE UNCHANGED <<qpc, qresp>>
    /\ UNCHANGED <<qn, pvars, lvars>>

\* A variant that waits for every call and quotes the packages that succeeded.
ShipmentFailsSettled(p, kind) ==
    /\ qpc \in {"awaiting", "failed"}
    /\ p \in 1..qn
    /\ ship[p].st = "out"
    /\ ship' = [ship EXCEPT ![p].st = kind]
    /\ IF \A o \in 1..qn : ship'[o].st # "out"
       THEN /\ qpc' = "aggregated"
            /\ qresp' = [status |-> 200, error |-> "",
                         rates |-> Aggregate(ShipmentsOf(qn, ship'), qn)]
       ELSE UNCHANGED <<qpc, qresp>>
    /\ lastReturned' = p
    /\ UNCHANGED <<qn, pvars, lvars>>

\* A variant that awaits the calls one after the other in package order: it
\* answers once every call completed, with the error of the failed package
\* of lowest index.
ShipmentFailsByIndex(p, kind) ==
    /\ qpc \in {"awaiting", "failed"}
    /\ p \in 1..qn
    /\ ship[p].st = "out"
    /\ ship' = [ship EXCEPT ![p].st = kind]
    /\ IF qpc = "awaiting" /\ \A o \in 1..qn : ship'[o].st # "out"
       THEN LET o == CHOOSE o \in 1..qn :
                        /\ ship'[o].st \in ShipFailureKinds
                        /\ \A u \in 1..(o - 1) : ship'[u].st = "ok"
            IN /\ qpc' = "failed"
               /\ qresp' = [status |-> 400,
                            error |-> ShipErrorMessage(o, ship'[o].st),
                            rates |-> <<>>]
       ELSE UNCHANGED <<qpc, qresp>>
    /\ lastReturned' = p
    /\ UNCHANGED <<qn, pvars, lvars>>

\* A variant whose failed call settles nothing: its promise stays pending.
ShipmentFailsPending(p, kind) ==
    /\ qpc \in {"awaiting", "failed"}
    /\ p \in 1..qn
    /\ ship[p].st = "out"
    /\ ship' = [ship EXCEPT ![p].st = kind]
    /\ lastReturned' = p
    /\ UNCHANGED <<qpc, qn, qresp, pvars, lvars>>

\* A variant that issues a failed call once more.
ShipmentFailsRetries(p, kind) ==
    /\ qpc \in {"awaiting", "failed"}
    /\ p \in 1..qn
    /\ ship[p].st = "out"
    /\ IF ship[p].issued = 1
       THEN /\ ship' = [ship EXCEPT ![p].issued = 2]
            /\ UNCHANGED <<qpc, qresp>>
       ELSE /\ ship' = [ship EXCEPT ![p].st = kind]
            /\ IF qpc = "awaiting"
               THEN /\ qpc' = "failed"
                    /\ qresp' = [status |-> 400,
                                 error |-> ShipErrorMessage(p, kind),
                                 rates |-> <<>>]
               ELSE UNCHANGED <<qpc, qresp>>
    /\ lastReturned' = p
    /\ UNCHANGED <<qn, pvars, lvars>>

\* The /shipments call of package p fails; the first failure rejects
\* Promise.all and the handler's catch responds.
ShipmentFails(p, kind) ==
    /\ qpc \in {"awaiting", "failed"}
    /\ p \in 1..qn
    /\ ship[p].st = "out"
    /\ ship' = [ship EXCEPT ![p].st = kind]
    /\ IF qpc = "awaiting"
       THEN /\ qpc' = "failed"
            /\ qresp' = [status |-> 400, error |-> ShipErrorMessage(p, kind),
                         rates |-> <<>>]
       ELSE UNCHANGED <<qpc, qresp>>
    /\ lastReturned' = p
    /\ UNCHANGED <<qn, pvars, lvars>>

QuoteNext ==
    \/ \E n \in 1..MaxPkgs : QuoteRequest(n)
    \/ \E p \in 1..MaxPkgs : \E rates \in RateLists(p) :
          ShipmentReturns(p, rates)
    \/ \E p \in 1..MaxPkgs, kind \in ShipFailureKinds : ShipmentFails(p, kind)

\* The quote route never reads the printer configuration.
QuoteInit == Init /\ printerConfigured

QuoteSpec == QuoteInit /\ [][QuoteNext]_vars

\* The same handler, with every package offered the one service at an
\* amount drawn from a range of two-decimal amounts.
AmountTexts ==
    {CentsText(k) : k \in (1..9) \cup {10 * i : i \in 1..9}
                            \cup {35, 99, 110, 500, 750, 1999, 99999}}

AmountNext ==
    \/ \E n \in 1..MaxPkgs : QuoteRequest(n)
    \/ \E p \in 1..MaxPkgs, amount \in AmountTexts :
          ShipmentReturns(p, <<PricedRate(p, 1, [provider |-> "USPS",
                                                 token |-> "ground"], amount)>>)
    \/ \E p \in 1..MaxPkgs, kind \in ShipFailureKinds : ShipmentFails(p, kind)

AmountSpec == QuoteInit /\ [][AmountNext]_vars

\* ------------------------------------------------- one purchase, one quote
\* One purchase request and one quote request side by side, the carrier
\* offering at most one rate per package.
CallsNext ==
    \/ \E pkgId \in PkgIds, n \in PairCounts : PurchaseRequest(1, pkgId, n)
    \/ TransactionSucceeds(1)
    \/ \E kind \in FailureKinds : TransactionFails(1, kind)
    \/ \E n \in 1..MaxPkgs : QuoteRequest(n)
    \/ \E p \in 1..MaxPkgs :
          \E rates \in {l \in RateLists(p) : Len(l) <= 1} :
              ShipmentReturns(p, rates)
    \/ \E p \in 1..MaxPkgs, kind \in ShipFailureKinds : ShipmentFails(p, kind)

CallsSpec == Init /\ [][CallsNext]_vars

\* ------------------------------------------------ requests and the printer
\* The /printjobs call of a label of request r returns, with whatever status:
\* the loop of printLabels sends the next label, if there is one.  The call
\* of the packing slip changes nothing when it returns.
LabelJobReturns(r) ==
    /\ ppc[r] = "responded"
    /\ LET sent == Cardinality({j \in 1..Len(printJobs[r]) :
                                   printJobs[r][j] = "label"})
       IN /\ sent > 0
          /\ sent < Len(results[r])
          /\ printJobs' = [printJobs EXCEPT ![r] = Append(@, "label")]
    /\ UNCHANGED <<completedOrders, ppc, pbody, results, tx, presp, steps,
                   printerConfigured, messages, qvars, lvars>>

\* The rate lists that matter for whether a request is answered: none, or
\* one offer.
AnswerRateLists(p) ==
    {<<>>, <<Rate(p, 1, [provider |-> "USPS", token |-> "ground"])>>}

\* The client of this specification sends one request, a purchase request
\* or a quote request: the numbers of pairs and of packages it may send now.
PurchaseOffers == IF qpc = "idle" THEN PairCounts ELSE {}

QuoteOffers == IF ppc[1] = "idle" THEN 1..MaxPkgs ELSE {}

\* One request, of either kind, its carrier calls and the printer.
LiveNext ==
    \/ \E pkgId \in PkgIds, n \in PurchaseOffers : PurchaseRequest(1, pkgId, n)
    \/ TransactionSucceeds(1)
    \/ \E kind \in FailureKinds : TransactionFails(1, kind)
    \/ LabelJobReturns(1)
    \/ \E n \in QuoteOffers : QuoteRequest(n)
    \/ \E p \in 1..MaxPkgs : \E rates \in AnswerRateLists(p) :
          ShipmentReturns(p, rates)
    \/ \E p \in 1..MaxPkgs, kind \in ShipFailureKinds : ShipmentFails(p, kind)

\* While a carrier call is outstanding, eventually one returns or errors;
\* every request has finitely many calls, so each of them is answered in the
\* end.  Nothing is assumed of the printer's calls.
CarrierAnswers ==
    WF_vars(\/ TransactionSucceeds(1)
            \/ \E kind \in FailureKinds : TransactionFails(1, kind)
            \/ \E p \in 1..MaxPkgs : \E rates \in AnswerRateLists(p) :
                  ShipmentReturns(p, rates)
            \/ \E p \in 1..MaxPkgs, kind \in ShipFailureKinds :
                  ShipmentFails(p, kind))

LiveSpec == Init /\ [][LiveNext]_vars /\ CarrierAnswers

\* ================================================================== claims
\* Helpers of the statements below.

\* Package p (1-based) of the quote request got an offer of the kind.
Offered(p, kind) ==
    \E j \in 1..Len(ship[p].rates) :
        /\ ship[p].rates[j].provider = kind.provider
        /\ ship[p].rates[j].token = kind.token

\* The quote response carries a quote of the kind.
Quoted(kind) ==
    \E k \in 1..Len(qresp.rates) :
        /\ qresp.rates[k].provider = kind.provider
        /\ qresp.rates[k].token = kind.token

\* Request r issued a call for each of its pairs and each returned a label.
AllPurchased(r) ==
    /\ Len(tx[r]) = Len(pbody[r].package_rates)
    /\ \A j \in 1..Len(tx[r]) : tx[r][j].st = "ok"

\* The LabelResults of the first n pairs of request r.
LabelsOf(r, n) == [j \in 1..n |-> LabelResult(r, j)]

\* The call of r's k-th pair failed.
FailedAt(r, k) == k \in 1..Len(tx[r]) /\ tx[r][k].st \in FailureKinds

\* A step in which request r arrives.
Arrives(r) == ppc[r] = "idle" /\ ppc'[r] # "idle"

\* C1: a quote request whose shipment calls all succeeded returns a quote for
\* a (provider, service-level) key exactly when every package got an offer
\* under that key, and every returned quote has one package rate per package.
C1_QuoteIffOfferedForEveryPackage ==
    qresp.status = 200 =>
        /\ \A kind \in OfferKinds :
               Quoted(kind) <=> \A p \in 1..qn : Offered(p, kind)
        /\ \A k \in 1..Len(qresp.rates) :
               Len(qresp.rates[k].package_rates) = qn

\* C2: a purchase request whose key already has a record in the ledger is
\* answered with the duplicate-order error and issues no purchase call, then
\* or later; and a request with a key that was answered with success has
\* stored its record, so a later request with that key is rejected.
C2_DuplicateIssuesNoCall ==
    /\ [][\A r \in PReqs :
            (Arrives(r) /\ Truthy(pbody'[r].pkgId)
                /\ pbody'[r].pkgId \in DOMAIN completedOrders)
            => (presp'[r] = DuplicateResponse /\ tx'[r] = <<>>
                /\ ppc'[r] = "responded")]_vars
    /\ [](\A r \in PReqs : presp[r] = DuplicateResponse => tx[r] = <<>>)
    /\ [](\A r \in PReqs :
            (presp[r].status = 200 /\ Truthy(pbody[r].pkgId))
            => pbody[r].pkgId \in DOMAIN completedOrders)

\* C2's case: a request succeeded and a later one with its key was rejected.
C2_Witness ==
    \E r1, r2 \in PReqs :
        /\ r1 < r2
        /\ pbody[r1].pkgId = pbody[r2].pkgId
        /\ presp[r1].status = 200
        /\ Len(presp[r1].labels) > 0
        /\ presp[r2] = DuplicateResponse

\* C3: the record of a key is stored once and never changes afterwards.
C3_RecordNeverChanges ==
    [][\A k \in DOMAIN completedOrders :
          k \in DOMAIN completedOrders' /\ completedOrders'[k] = completedOrders[k]]_vars

\* C4: the duplicate check looks at the ledger alone: a request with pairs
\* whose key has no record passes it and issues its first purchase call,
\* whichever requests are in flight.
C4_CheckReadsLedgerOnly ==
    [][\A r \in PReqs :
          (Arrives(r) /\ pbody'[r].pkgId \notin DOMAIN completedOrders
              /\ Len(pbody'[r].package_rates) > 0)
          => (ppc'[r] = "purchasing" /\ Len(tx'[r]) = 1 /\ tx'[r][1].st = "out")]_vars

\* C4's case: two requests with the same key are both past the check, both
\* have issued purchase calls, and neither has stored a record.
C4_Witness ==
    \E r1, r2 \in PReqs :
        /\ r1 # r2
        /\ Truthy(pbody[r1].pkgId)
        /\ pbody[r1].pkgId = pbody[r2].pkgId
        /\ ppc[r1] = "purchasing" /\ ppc[r2] = "purchasing"
        /\ Len(tx[r1]) > 0 /\ Len(tx[r2]) > 0
        /\ pbody[r1].pkgId \notin DOMAIN completedOrders

\* C5: when the call of the k-th pair failed, the invocation issued exactly
\* k calls: none for a pair after the k-th.
C5_NoCallAfterFailure ==
    \A r \in PReqs : \A k \in 1..MaxPairs :
        FailedAt(r, k) =>
            /\ Len(tx[r]) = k
            /\ \A j \in 1..(k - 1) : tx[r][j].st = "ok"

\* C5's case: the first pair of a request with more pairs failed.
C5_Witness ==
    \E r \in PReqs :
        /\ FailedAt(r, 1)
        /\ Len(pbody[r].package_rates) > 1
        /\ ppc[r] = "responded"

\* C6: after a failure at the k-th pair the k-1 LabelResults of the pairs
\* before it are in the response or kept in state the caller can inspect.
C6_PartialLabelsKept ==
    \A r \in PReqs : \A k \in 1..MaxPairs :
        (FailedAt(r, k) /\ ppc[r] = "responded") =>
            \/ presp[r].labels = LabelsOf(r, k - 1)
            \/ results[r] = LabelsOf(r, k - 1)
            \/ \E key \in DOMAIN completedOrders :
                  completedOrders[key].labels = LabelsOf(r, k - 1)

\* C7: the purchase calls of one invocation are sequential: at most one is
\* outstanding, they are issued in the order of the pairs, and each is issued
\* only after the one before it returned a label.
C7_PurchaseCallsSequential ==
    \A r \in PReqs :
        /\ Cardinality({j \in 1..Len(tx[r]) : tx[r][j].st = "out"}) <= 1
        /\ Len(tx[r]) <= Len(pbody[r].package_rates)
        /\ \A j \in 1..Len(tx[r]) :
              /\ tx[r][j].idx = j
              /\ tx[r][j].rate_id = pbody[r].package_rates[j].rate_id
              /\ j > 1 => tx[r][j - 1].st = "ok"

\* C7's case: the first call returned and the second is outstanding.
C7_Witness ==
    \E r \in PReqs :
        Len(tx[r]) = 2 /\ tx[r][1].st = "ok" /\ tx[r][2].st = "out"

\* C8: a record is in the ledger under a key only when a request with that
\* key had all its purchase calls succeed, its labels are that request's
\* LabelResults, and a request answered with a failure (of a purchase call,
\* or as a duplicate) leaves the ledger as it was.
C8_RecordOnlyAfterFullPurchase ==
    /\ [](\A key \in DOMAIN completedOrders :
            \E r \in PReqs :
                /\ pbody[r].pkgId = key
                /\ ppc[r] = "responded"
                /\ AllPurchased(r)
                /\ completedOrders[key].labels =
                       LabelsOf(r, Len(pbody[r].package_rates)))
    /\ [][\A r \in PReqs :
            (presp[r].status = 0 /\ presp'[r].status = 400)
            => completedOrders' = completedOrders]_vars

\* C8's case: a key has a record and another request with that key failed
\* at its second pair.
C8_Witness ==
    \E r1, r2 \in PReqs :
        /\ r1 # r2
        /\ pbody[r1].pkgId = pbody[r2].pkgId
        /\ pbody[r1].pkgId \in DOMAIN completedOrders
        /\ Len(pbody[r1].package_rates) > 0
        /\ AllPurchased(r1)
        /\ completedOrders[pbody[r1].pkgId].labels = LabelsOf(r1, Len(tx[r1]))
        /\ FailedAt(r2, 2)
        /\ ppc[r2] = "responded"

\* C9: a request with at least one pair whose purchase calls all succeeded is
\* answered with success carrying all LabelResults, and its record is stored
\* when it carries a key.
C9_SuccessDespiteCollaborators ==
    \A r \in PReqs :
        (ppc[r] = "responded" /\ Len(tx[r]) > 0 /\ AllPurchased(r)) =>
            /\ presp[r] = SuccessResponse(LabelsOf(r, Len(tx[r])))
            /\ Truthy(pbody[r].pkgId) => pbody[r].pkgId \in DOMAIN completedOrders

\* C10: once the shipment call of a package failed, the quote request is
\* answered with an error and no quote, and the rates were not aggregated.
C10_FailedShipmentNoQuotes ==
    (\E p \in 1..qn : ship[p].st \in ShipFailureKinds) =>
        /\ qresp.status = 400
        /\ qresp.rates = <<>>
        /\ qresp.error # ""
        /\ qpc = "failed"

\* C10's case: one package failed while another returned rates that a
\* quote could have been computed from.
C10_Witness ==
    /\ qn = 2
    /\ ship[1].st = "ok" /\ Len(ship[1].rates) > 0
    /\ ship[2].st \in ShipFailureKinds

\* The sum of the decimal values of the constituent amounts, in cents.
RECURSIVE SumCents(_, _)
SumCents(package_rates, i) ==
    IF i > Len(package_rates) THEN 0
    ELSE DecimalCents(package_rates[i].amount) + SumCents(package_rates, i + 1)

\* C11: the amount of every aggregated quote is the exact decimal sum of its
\* constituent amounts written with two decimals, for constituent amounts of
\* two decimal places: the binary floating-point sum never shows.
C11_AmountIsDecimalSum ==
    qresp.status = 200 =>
        \A q \in 1..Len(qresp.rates) :
            qresp.rates[q].amount =
                CentsText(SumCents(qresp.rates[q].package_rates, 1))

\* A quote of 0.10 + 0.70, whose floating-point sum lies below 0.80.
C11_Witness ==
    /\ qresp.status = 200
    /\ qn = 2
    /\ ship[1].rates[1].amount = CentsText(10)
    /\ ship[2].rates[1].amount = CentsText(70)
    /\ Len(qresp.rates) = 1
    /\ qresp.rates[1].amount = <<"0", ".", "8", "0">>

\* A purchase request carrying the key of text K in its JSON body (as a
\* string or as a number) was answered with success.
PurchasedWithKey(K) ==
    \E r \in PReqs :
        /\ presp[r].status = 200
        /\ pbody[r].pkgId \in {Str(K), Num(K)}

\* A step of the lookup handler.
LooksUp == lresp' # lresp

\* C12: a lookup of key K reports the stored record if and only if an earlier
\* purchase request carrying K as its key completed successfully, and it
\* changes neither the ledger nor the calls issued.
C12_LookupIffPurchased ==
    [][LooksUp =>
          /\ lresp'.exists <=> PurchasedWithKey(lresp'.url)
          /\ completedOrders' = completedOrders
          /\ tx' = tx]_vars

\* Every shipment call of the quote request succeeded.
AllShipped == qpc = "aggregated" /\ \A p \in 1..qn : ship[p].st = "ok"

\* C13: a quote request whose shipment calls all succeed while no (provider,
\* service-level) key is offered for every package is answered with success
\* and an empty quote list.
C13_NoCommonKeyEmptyList ==
    (AllShipped /\ ~\E kind \in OfferKinds : \A p \in 1..qn : Offered(p, kind))
        => qresp.status = 200 /\ qresp.rates = <<>>

\* The position of a step among request r's handler steps, 0 when it did
\* not run.
StepAt(r, step) ==
    IF \E i \in 1..Len(steps[r]) : steps[r][i] = step
    THEN CHOOSE i \in 1..Len(steps[r]) : steps[r][i] = step
    ELSE 0

\* C14: in a successful purchase carrying a key, the record is inserted into
\* the ledger before the results are handed to the printing and logging
\* collaborators: the record is in the ledger when the first print job is
\* dispatched.
C14_RecordBeforePrinting ==
    \A r \in PReqs :
        (presp[r].status = 200 /\ Truthy(pbody[r].pkgId)) =>
            /\ StepAt(r, "set") > 0
            /\ StepAt(r, "set") < StepAt(r, "printLabels")
            /\ StepAt(r, "set") < StepAt(r, "logOrderDetails")

\* The offer a constituent reference of a quote came from.
OfferOf(ref) == ship[ref.rate_id[1]].rates[ref.rate_id[2]]

\* C15: offers are accumulated into one quote only when they have the same
\* provider and the same service-level token, also when the strings contain
\* a hyphen; offers of the same pair are never spread over two quotes.
C15_MergedIffSamePair ==
    qresp.status = 200 =>
        /\ \A q \in 1..Len(qresp.rates) :
              \A i, j \in 1..Len(qresp.rates[q].package_rates) :
                  LET a == OfferOf(qresp.rates[q].package_rates[i])
                      b == OfferOf(qresp.rates[q].package_rates[j])
                  IN a.provider = b.provider /\ a.token = b.token
        /\ \A q1, q2 \in 1..Len(qresp.rates) :
              (/\ qresp.rates[q1].provider = qresp.rates[q2].provider
               /\ qresp.rates[q1].token = qresp.rates[q2].token) => q1 = q2

\* C16: all per-package shipment calls are issued when the quote request
\* arrives, none waiting for another, and the aggregation runs (and the
\* quotes are sent) only once every one of them has returned.
C16_AggregationAfterAllReturned ==
    /\ [](qresp.status = 200 =>
             /\ qpc = "aggregated"
             /\ \A p \in 1..qn : ship[p].st = "ok")
    /\ [][(qpc = "idle" /\ qpc' # "idle") =>
             /\ DOMAIN ship' = 1..qn'
             /\ \A p \in 1..qn' : ship'[p].st = "out"]_vars
    /\ [][(qpc = "awaiting" /\ \E p \in 1..qn : ship'[p].st = "out") =>
             qresp'.status # 200]_vars

\* Quotes were aggregated over the calls of MaxPkgs packages.
C16_Witness ==
    /\ qpc = "aggregated"
    /\ qn = MaxPkgs
    /\ \A p \in 1..qn : ship[p].st = "ok"
    /\ Len(qresp.rates) > 0

\* C17: for a quote request whose shipment calls all succeed, the quote list
\* (keys, their order, amounts, constituents in ascending package index) is
\* determined by what each package's call returned, whatever the order in
\* which the calls completed.
C17_QuotesIndependentOfCompletionOrder ==
    qresp.status = 200 =>
        /\ qresp.rates =
               Aggregate([p \in 1..qn |-> [packageIndex |-> p - 1,
                                           rates |-> ship[p].rates]], qn)
        /\ \A q \in 1..Len(qresp.rates) :
              \A i, j \in 1..Len(qresp.rates[q].package_rates) :
                  i < j => qresp.rates[q].package_rates[i].packageIndex
                             <= qresp.rates[q].package_rates[j].packageIndex

\* Two quotes over two packages whose calls completed in descending order.
C17_Witness ==
    /\ qresp.status = 200
    /\ qn = 2
    /\ lastReturned = 1
    /\ Len(qresp.rates) = 2
    /\ \A q \in 1..2 :
          /\ Len(qresp.rates[q].package_rates) = 2
          /\ qresp.rates[q].package_rates[1].packageIndex = 0
          /\ qresp.rates[q].package_rates[2].packageIndex = 1

\* The call of package p fails in this step.
FailsNow(p) == ship[p].st = "out" /\ ship'[p].st \in ShipFailureKinds

\* The message the caller is to get for a failed call of package p: the
\* remote's detail if it gave one, otherwise the generic message with the
\* package's 1-based position.
ClaimedMessage(p, kind) ==
    IF kind = "detail" THEN "detail"
    ELSE "Failed to create shipment for package " \o ToString(p)

\* The same, except that a call that failed without any answer of the
\* remote gives the message of the transport error.
AmendedMessage(p, kind) ==
    IF kind = "transport" THEN "socket hang up" ELSE ClaimedMessage(p, kind)

\* C18 as stated: the error reported is that of the package whose call
\* failed first in time, the remote's detail if it gave one and otherwise
\* the generic message naming the package; later failures change nothing.
C18_FirstFailureReported ==
    /\ [][\A p \in 1..qn :
             (qpc = "awaiting" /\ FailsNow(p)) =>
                 qresp' = [status |-> 400, rates |-> <<>>,
                           error |-> ClaimedMessage(p, ship'[p].st)]]_vars
    /\ [][qpc = "failed" => qresp' = qresp]_vars

\* C18 amended: the error reported is that of the package whose call failed
\* first in time: for a non-success status the remote's detail if it gave
\* one and otherwise the generic message naming the package, for a transport
\* error the message of that error; later failures change nothing.
C18_FirstFailureReportedAmended ==
    /\ [][\A p \in 1..qn :
             (qpc = "awaiting" /\ FailsNow(p)) =>
                 qresp' = [status |-> 400, rates |-> <<>>,
                           error |-> AmendedMessage(p, ship'[p].st)]]_vars
    /\ [][qpc = "failed" => qresp' = qresp]_vars

\* Both packages failed and the error is that of package 2, which failed
\* first.
C18_Witness ==
    /\ qpc = "failed"
    /\ qn = 2
    /\ ship[1].st = "detail"
    /\ ship[2].st = "nodetail"
    /\ qresp.status = 400
    /\ qresp.error = "Failed to create shipment for package 2"

\* C19: a purchase request submits a print job (label or packing slip) only
\* when every purchase call of the request has succeeded; a request rejected
\* as a duplicate or aborted by a failed purchase call submits none.
C19_PrintOnlyAfterFullPurchase ==
    \A r \in PReqs :
        /\ printJobs[r] # <<>> => AllPurchased(r)
        /\ presp[r] = DuplicateResponse => printJobs[r] = <<>>
        /\ (\E k \in 1..Len(tx[r]) : FailedAt(r, k)) => printJobs[r] = <<>>

\* A request with MaxPairs pairs submitted its label and packing slip jobs,
\* while another was aborted by a failure after its first label.
C19_Witness ==
    \E r1, r2 \in PReqs :
        /\ Len(tx[r1]) = MaxPairs
        /\ AllPurchased(r1)
        /\ printJobs[r1] = <<"label", "slip">>
        /\ FailedAt(r2, 2)
        /\ printJobs[r2] = <<>>

\* C20: nothing is retried: within one purchase invocation each (package
\* index, rate id) pair is the subject of at most one purchase call, and
\* within one quote request each package is the subject of exactly one
\* shipment call, whether the call succeeds or fails.
C20_NothingRetried ==
    /\ \A r \in PReqs :
          /\ \A j, k \in 1..Len(tx[r]) : j # k => tx[r][j].idx # tx[r][k].idx
          /\ \A j \in 1..Len(tx[r]) :
                /\ tx[r][j].idx \in 1..Len(pbody[r].package_rates)
                /\ tx[r][j].rate_id =
                       pbody[r].package_rates[tx[r][j].idx].rate_id
    /\ qpc # "idle" =>
          /\ DOMAIN ship = 1..qn
          /\ \A p \in 1..qn : ship[p].issued = 1

\* A purchase aborted at its second pair and a quote request of MaxPkgs
\* packages of which one call failed, all calls being complete.
C20_Witness ==
    /\ FailedAt(1, 2)
    /\ ppc[1] = "responded"
    /\ qpc = "failed"
    /\ qn = MaxPkgs
    /\ \A p \in 1..qn : ship[p].st # "out"

\* The calls of request r that returned a label so far.
Purchased(r) == {j \in 1..Len(tx[r]) : tx[r][j].st = "ok"}

\* C21: while no purchase call of an invocation failed, its result list has
\* one LabelResult per call that returned, in the order of the input pairs,
\* the i-th carrying the package index of the i-th pair and the tracking
\* number, label reference and tracking URL that pair's call returned; when
\* every call succeeded that is one LabelResult per input pair, and a
\* success response carries that list.
C21_OneLabelResultPerPairInOrder ==
    \A r \in PReqs :
        /\ (~\E k \in 1..Len(tx[r]) : FailedAt(r, k)) =>
              /\ Len(results[r]) = Cardinality(Purchased(r))
              /\ \A i \in 1..Len(results[r]) :
                    results[r][i] =
                        [packageIndex |-> pbody[r].package_rates[i].packageIndex,
                         tracking_number |-> TransactionData(r, i).tracking_number,
                         label_url |-> TransactionData(r, i).label_url,
                         tracking_url |->
                             TransactionData(r, i).tracking_url_provider]
        /\ (AllPurchased(r) /\ ppc[r] = "responded") =>
              Len(results[r]) = Len(pbody[r].package_rates)
        /\ presp[r].status = 200 => presp[r].labels = results[r]

\* A request of MaxPairs pairs was answered with its MaxPairs LabelResults.
C21_Witness ==
    \E r \in PReqs :
        /\ Len(pbody[r].package_rates) = MaxPairs
        /\ AllPurchased(r)
        /\ presp[r].status = 200
        /\ Len(presp[r].labels) = MaxPairs
        /\ presp[r].labels[MaxPairs].packageIndex = MaxPairs - 1

\* The character sequence needle occurs in hay.
Contains(hay, needle) ==
    \E i \in 0..(Len(hay) - Len(needle)) :
        SubSeq(hay, i + 1, i + Len(needle)) = needle

\* C22: when the purchase call of a package is answered with a failed status
\* and a message list, the purchase request is answered with a failure whose
\* message contains the text of every message of the list, and the error is
\* that of the first failing package: every pair before it was purchased and
\* no call came after it.
C22_FailureCarriesEveryMessage ==
    \A r \in PReqs : \A k \in 1..MaxPairs :
        (k \in 1..Len(tx[r]) /\ tx[r][k].st = "error") =>
            /\ presp[r].status = 400
            /\ Len(presp[r].error) > 0
            /\ \A m \in 1..Len(messages[r]) :
                  messages[r][m].text.t = "string" =>
                      Contains(presp[r].error, messages[r][m].text.v)
            /\ Len(tx[r]) = k
            /\ \A j \in 1..(k - 1) : tx[r][j].st = "ok"

\* The second pair's call reported "no" and "Invalid rate".
C22_Witness ==
    \E r \in PReqs :
        /\ Len(tx[r]) = 2
        /\ tx[r][1].st = "ok"
        /\ tx[r][2].st = "error"
        /\ messages[r] = <<[text |-> Text(<<"n", "o">>)],
                           [text |-> Text(InvalidRate)]>>
        /\ presp[r].status = 400
        /\ presp[r].error = <<"n", "o", ",", " ">> \o InvalidRate

\* The values of pkgId of a request that carries no key.
NoKeys == {Undefined, Str("")}

\* Request r takes a step.
Acts(r) == ppc'[r] # ppc[r] \/ tx'[r] # tx[r]

\* C23: a purchase request without a key (absent or empty) is never rejected
\* as a duplicate and never changes the ledger: on arrival it issues the
\* purchase call of its first pair whatever the ledger holds, no step of it
\* changes the ledger, and the ledger never holds a record under no key.
C23_NoKeyNoLedgerEffect ==
    /\ [][\A r \in PReqs :
            /\ (Arrives(r) /\ pbody'[r].pkgId \in NoKeys) =>
                  /\ presp'[r] # DuplicateResponse
                  /\ tx'[r] = IF Len(pbody'[r].package_rates) = 0 THEN <<>>
                              ELSE <<[idx |-> 1, st |-> "out",
                                      rate_id |-> pbody'[r].package_rates[1].rate_id]>>
            /\ (Acts(r) /\ pbody'[r].pkgId \in NoKeys) =>
                  completedOrders' = completedOrders]_vars
    /\ [](\A r \in PReqs :
            (ppc[r] # "idle" /\ pbody[r].pkgId \in NoKeys) =>
                presp[r] # DuplicateResponse)
    /\ [](\A key \in NoKeys : key \notin DOMAIN completedOrders)

\* Two requests without a key, one with an absent and one with an empty key,
\* both purchased all their labels and were answered with success, and the
\* ledger is empty.
C23_Witness ==
    \E r1, r2 \in PReqs :
        /\ pbody[r1].pkgId = Undefined /\ pbody[r2].pkgId = Str("")
        /\ Len(tx[r1]) = MaxPairs /\ Len(tx[r2]) = MaxPairs
        /\ AllPurchased(r1) /\ AllPurchased(r2)
        /\ presp[r1].status = 200 /\ presp[r2].status = 200
        /\ ppc[r1] = "responded" /\ ppc[r2] = "responded"
        /\ DOMAIN completedOrders = {}

\* Request q was aborted by the failure of the call of a pair after its
\* first.
FailedLate(q) ==
    ppc[q] = "responded" /\ \E k \in 2..MaxPairs : FailedAt(q, k)

SucceededWithKey(K) ==
    \E q \in PReqs :
        /\ presp[q].status = 200
        /\ Truthy(pbody[q].pkgId)
        /\ pbody[q].pkgId \in {Str(K), Num(K)}

\* C25: in a successful purchase carrying a key K the record for K is
\* inserted into the ledger before the success response is sent: once the
\* response is there the ledger holds the record, a lookup for K finds it,
\* and a new purchase request with K is rejected as a duplicate.
C25_RecordBeforeResponse ==
    /\ [](\A r \in PReqs :
            (presp[r].status = 200 /\ Truthy(pbody[r].pkgId)) =>
                /\ pbody[r].pkgId \in DOMAIN completedOrders
                /\ StepAt(r, "set") > 0
                /\ StepAt(r, "set") < StepAt(r, "end"))
    /\ [][(LooksUp /\ SucceededWithKey(lresp'.url)) => lresp'.exists]_vars
    /\ [][\A r \in PReqs :
            (Arrives(r) /\ Truthy(pbody'[r].pkgId)
                /\ \E q \in PReqs : /\ presp[q].status = 200
                                     /\ pbody[q].pkgId = pbody'[r].pkgId)
            => (presp'[r] = DuplicateResponse /\ tx'[r] = <<>>)]_vars

\* A response of the purchase route: a success, or a failure with a message.
IsAnswer(resp) ==
    \/ resp.status = 200 /\ resp.error = ""
    \/ resp.status = 400 /\ resp.error # ""

\* C26: provided every carrier call eventually returns or errors, the
\* purchase request and the quote request are each eventually answered,
\* with a success or with a failure carrying a message, whatever the
\* printer's calls do; a response once sent is never followed by another,
\* and a request is without response only while a carrier call of it is
\* outstanding.
C26_EveryRequestAnsweredOnce ==
    /\ (ppc[1] = "purchasing") ~> (ppc[1] = "responded")
    /\ (qpc = "awaiting") ~> (qpc \in {"aggregated", "failed"})
    /\ [](\A r \in PReqs :
            /\ ppc[r] = "responded" => IsAnswer(presp[r])
            /\ ppc[r] = "purchasing" =>
                  (presp[r].status = 0 /\ tx[r][Len(tx[r])].st = "out")
            /\ ppc[r] = "idle" => presp[r].status = 0)
    /\ [](/\ qpc \in {"aggregated", "failed"} => IsAnswer(qresp)
          /\ qpc = "awaiting" =>
                (qresp.status = 0 /\ \E p \in 1..qn : ship[p].st = "out")
          /\ qpc = "idle" => qresp.status = 0)
    /\ [][\A r \in PReqs : presp[r].status # 0 => presp'[r] = presp[r]]_vars
    /\ [][qresp.status # 0 => qresp' = qresp]_vars

\* The purchase request was answered with success while its first label
\* job is still with the printer, which has not answered.
C26_Witness ==
    /\ ppc[1] = "responded"
    /\ presp[1].status = 200
    /\ Len(presp[1].labels) = MaxPairs
    /\ printJobs[1] = <<"label", "slip">>

====
